---- MODULE Spec2Model ----
(***************************************************************************)
(* TensorHIP (src/hip/models.py): the recursive predictor with its bounded *)
(* memory window, and the multi-restart trainer that keeps the parameters  *)
(* with the lowest validation loss.                                        *)
(*                                                                         *)
(* Numbers are fixed point: every tensor value (eta, mu, theta, C, c, x,   *)
(* y, predictions, losses) is an integer count of hundredths, so 0.01 is 1 *)
(* and 0.5 is 50.  Kernel weights carry four more decimal digits (WScale). *)
(* Python indices are 0-based and TLA+ sequences 1-based: x[:, i] of the   *)
(* code is x[i + 1] here.                                                  *)
(***************************************************************************)
EXTENDS Integers, Sequences, FiniteSets, TLC

\* ------------------------------------------------------------ bounds
\* longest input handed to predict in PredictSpec (more than MEMORY_WINDOW)
MaxSteps == 9
\* number of exogenous sources (rows of x)
NumExo == 1
\* number of input patterns enumerated for predict
MaxPattern == 1

\* largest num_initializations given to the constructor
MaxInit == 2
\* largest number of target series (len(ys))
MaxSeries == 2
\* largest number of train() calls made on one model
MaxTrainCalls == 2
\* largest max_iterations given to the constructor
MaxIter == 1
\* series_length, the length of every target series
SeriesLen == 10

\* ------------------------------------------------------------ constants
RANDOM_SEED == 42
\* train_split_size, in percent
TrainSplitPct == 95
\* the share of the training region that is fitted on, in tenths (0.8)
CvTrainTenths == 8
\* np.inf, above every loss of the model
NpInf == 1000000
\* l1_param and l2_param, in hundredths
l1_param == 0
l2_param == 0
\* the lower bounds of the constraints on theta, C and c, in hundredths
ThetaMin == 50
CMin == 1
cMin == 0
MEMORY_WINDOW == 7
\* tf.constant(0.01), the offset added to the kernel base, in hundredths
KernelOffset == 1
\* one unit (1.0) in hundredths
Unit == 100
\* scale of a kernel weight: weight 1.0 is WScale
WScale == 10000

Max(a, b) == IF a >= b THEN a ELSE b
Min(a, b) == IF a <= b THEN a ELSE b

\* ------------------------------------------------------------ tensor helpers
\* tf.range(start, limit, -1): start, start-1, ... down to limit+1
TfRange(start, limit) == [k \in 1..Max(0, start - limit) |-> start - (k - 1)]

\* tf.tile([v], [n])
TfTile(v, n) == [k \in 1..n |-> v]

RECURSIVE SumTo(_, _)
SumTo(s, n) == IF n = 0 THEN 0 ELSE s[n] + SumTo(s, n - 1)
\* tf.reduce_sum of a vector; the sum of the empty vector is 0
TfReduceSum(s) == SumTo(s, Len(s))

\* tf.multiply of two vectors of one length, elementwise
TfMultiply(a, b) == [k \in 1..Len(a) |-> (a[k] * b[k]) \div Unit]

RECURSIVE SqrtSearch(_, _, _)
SqrtSearch(n, lo, hi) ==
    IF lo >= hi THEN lo
    ELSE LET mid == (lo + hi + 1) \div 2
         IN IF mid * mid <= n THEN SqrtSearch(n, mid, hi)
                              ELSE SqrtSearch(n, lo, mid - 1)
\* the integer square root of n (n < 2^30)
ISqrt(n) == SqrtSearch(n, 0, 32767)

RECURSIVE PowWhole(_, _, _)
PowWhole(w, b, n) == IF n = 0 THEN w ELSE PowWhole((w * Unit) \div b, b, n - 1)
\* tf.pow(b, e) for a base b > 0 and an exponent e <= 0, both in hundredths,
\* as a weight scaled by WScale; e is taken in steps of one half
TfPow(b, e) ==
    LET halves == (0 - e) \div 50
        whole == PowWhole(WScale, b, halves \div 2)
    IN IF halves % 2 = 0 THEN whole
       ELSE (whole * Unit) \div ISqrt(b * Unit)

\* ------------------------------------------------------------ predict
\* a kernel base that ends at 1: tf.range(i, 0, -1)
time_decay_base_from_one(i) == TfRange(i, 0)
\* time_decay_base(i): tf.range(i + 1, 1, -1), in units
time_decay_base(i) == TfRange(i + 1, 1)

\* an exogenous term that reads the next column, x[:, i + 1]
ExogenousLookahead(mu, x, i) == TfReduceSum(TfMultiply(mu, x[Min(i + 2, Len(x))]))
\* an exogenous term that reads the previous column, x[:, i - 1] (index -1 is
\* the last column)
ExogenousLagged(mu, x, i) ==
    TfReduceSum(TfMultiply(mu, x[IF i = 0 THEN Len(x) ELSE i]))
\* exogenous = reduce_sum(multiply(mu, x[:, i]))
Exogenous(mu, x, i) == TfReduceSum(TfMultiply(mu, x[i + 1]))

\* a window start one step too early
EndoHistoryWindowStartEarly(i) == Max(0, i - MEMORY_WINDOW - 1)
\* endo_history_window_start = maximum(0, i - MEMORY_WINDOW)
EndoHistoryWindowStart(i) == Max(0, i - MEMORY_WINDOW)

\* endo_history = pred_history[endo_history_window_start:]
EndoHistory(pred_history, start) ==
    SubSeq(pred_history, start + 1, Len(pred_history))

\* the kernel weights pow(time_decay_base(n) + 0.01, tile([-1 - theta], [n]))
KernelWeights(base, exps) ==
    [k \in 1..Len(base) |-> TfPow(base[k] * Unit + KernelOffset, exps[k])]

\* endogenous = C * reduce_sum(endo_history * weights)
Endogenous(C, endo_history, weights) ==
    (C * TfReduceSum([k \in 1..Len(endo_history) |->
                        (endo_history[k] * weights[k]) \div WScale])) \div Unit

\* new_prediction = add_n([bias, exogenous, endogenous])
NewPrediction(bias, exogenous, endogenous) == bias + exogenous + endogenous

\* One pass of loop_body at index i: the tensors it builds and its result.
LoopBody(params, x, pred_history, i) ==
    LET start == EndoHistoryWindowStart(i)
        hist == EndoHistory(pred_history, start)
        base == time_decay_base(i - start)
        exps == TfTile(0 - Unit - params.theta, i - start)
        endo == Endogenous(params.C, hist, KernelWeights(base, exps))
        exo == Exogenous(params.mu, x, i)
    IN [i |-> i, start |-> start, endo_history |-> hist, base |-> base,
        exps |-> exps, exogenous |-> exo, endogenous |-> endo,
        new_prediction |-> NewPrediction(params.eta, exo, endo)]

RECURSIVE PredictFrom(_, _, _, _)
PredictFrom(params, x, pred_history, i) ==
    IF i < Len(x)
    THEN PredictFrom(params, x,
             Append(pred_history, LoopBody(params, x, pred_history, i).new_prediction),
             i + 1)
    ELSE pred_history
\* predict(x, model_params): the while_loop run to its end
Predict(x, params) == PredictFrom(params, x, << >>, 0)

\* ------------------------------------------------------------ loss
\* whether two vector shapes broadcast against each other
ShapesCompatible(n, m) == n = m \/ n = 1 \/ m = 1

\* y_truth - pred, with broadcasting of a vector of length 1
TfSubtract(y, pred) ==
    IF Len(y) = Len(pred) THEN [k \in 1..Len(y) |-> y[k] - pred[k]]
    ELSE IF Len(pred) = 1 THEN [k \in 1..Len(y) |-> y[k] - pred[1]]
    ELSE [k \in 1..Len(pred) |-> y[1] - pred[k]]

Abs(a) == IF a < 0 THEN 0 - a ELSE a

\* loss = sqrt(reduce_sum(square(y_truth - pred)))
\*        + l1_param * reduce_sum(abs(mu)) + l2_param * reduce_sum(square(mu))
Loss(x, y, params) ==
    LET d == TfSubtract(y, Predict(x, params))
    IN ISqrt(TfReduceSum([k \in 1..Len(d) |-> d[k] * d[k]]))
         + (l1_param * TfReduceSum([e \in 1..Len(params.mu) |-> Abs(params.mu[e])]))
              \div Unit
         + (l2_param * TfReduceSum([e \in 1..Len(params.mu) |->
                                      (params.mu[e] * params.mu[e]) \div Unit]))
              \div Unit

\* ------------------------------------------------------------ slicing
\* seq[lo:hi] of Python
PySlice(seq, lo, hi) == SubSeq(seq, Min(lo, Len(seq)) + 1, Min(hi, Len(seq)))
\* the indices seq[lo:hi] reads of a sequence of length n
PySliceIdx(n, lo, hi) == {k \in 0..n - 1 : lo <= k /\ k < hi}

\* a validation slice that runs to the end of the series
ValidationEndAtSeriesEnd(o) == o.series_length
\* x[:, :num_cv_train], y[:num_cv_train]
TrainEnd(o) == o.num_cv_train
\* x[:, num_cv_train:num_train], y[num_cv_train:num_train]
ValidationStart(o) == o.num_cv_train
ValidationEnd(o) == o.num_train

\* ------------------------------------------------------------ __init__
ParamsKeys == {"eta", "mu", "theta", "C", "c"}
\* self.model_params = None
NoneParams == [none |-> TRUE]
IsNone(d) == DOMAIN d = {"none"}

\* an optional argument is the empty set (None) or the set of its value
Given(opt) == opt # {}
ValueOf(opt) == CHOOSE v \in opt : TRUE

\* np.mean over every value of every series
MeanOfAll(ys) ==
    LET flat == [s \in 1..Len(ys) |-> TfReduceSum(ys[s])]
        count == TfReduceSum([s \in 1..Len(ys) |-> Len(ys[s])])
    IN TfReduceSum(flat) \div count
MeanOfAllX(xs) ==
    MeanOfAll([s \in 1..Len(xs) |->
                 [k \in 1..Len(xs[s]) * NumExo |->
                    xs[s][((k - 1) \div NumExo) + 1][((k - 1) % NumExo) + 1]]])

\* the model parameters the constructor stores: the fixed ones
CtorModelParams(a) ==
    LET eta_fixed == a.eta_param_mode \in {"exo_mean", "target_mean", "constant"}
        keys == (IF Given(a.fix_c_param_value) THEN {"c"} ELSE {})
                  \cup (IF Given(a.fix_theta_param_value) THEN {"theta"} ELSE {})
                  \cup (IF Given(a.fix_C_param_value) THEN {"C"} ELSE {})
                  \cup (IF eta_fixed THEN {"eta"} ELSE {})
    IN [k \in keys |->
          CASE k = "c" -> ValueOf(a.fix_c_param_value)
            [] k = "theta" -> ValueOf(a.fix_theta_param_value)
            [] k = "C" -> ValueOf(a.fix_C_param_value)
            [] k = "eta" ->
                 IF a.eta_param_mode = "exo_mean" THEN MeanOfAllX(a.xs)
                 ELSE IF a.eta_param_mode = "target_mean" THEN MeanOfAll(a.ys)
                 ELSE ValueOf(a.fix_eta_param_value)]

\* TensorHIP.__init__: the fields of the new object that never change later
Construct(a) ==
    LET series_length == Len(a.ys[1])
        num_train == (series_length * TrainSplitPct) \div 100
        num_cv_train == (num_train * CvTrainTenths) \div 10
    IN [num_of_series |-> Len(a.ys),
        x |-> a.xs,
        ys |-> a.ys,
        series_length |-> series_length,
        num_train |-> num_train,
        num_cv_train |-> num_cv_train,
        fixed_c |-> Given(a.fix_c_param_value),
        fixed_theta |-> Given(a.fix_theta_param_value),
        fixed_C |-> Given(a.fix_C_param_value),
        fixed_eta |-> a.eta_param_mode \in {"exo_mean", "target_mean", "constant"},
        max_iterations |-> a.max_iterations,
        num_initializations |-> a.num_initializations]

\* ------------------------------------------------------------ _init_tf_model_variables
\* The values the seeded random initializers give: a fixed function of the seed.
RandomDraw(seed) ==
    [eta |-> 50 * ((seed % 3) - 1),
     mu |-> [e \in 1..NumExo |-> 50 + 50 * (seed % 2)],
     theta |-> 500 + 500 * (seed % 2),
     C |-> 100 + 100 * (seed % 3),
     c |-> 100 * (seed % 2)]

\* Whether the stored value of key k is used (k is in self.model_params)
Stored(mp, k) == k \in DOMAIN mp

\* The tensors _init_tf_model_variables returns: their initial values, which of
\* them are variables (the others are tf.constant), and which variables carry a
\* constraint.
InitTfModelVariables(o, mp, random_seed) ==
    LET fixed == [eta |-> o.fixed_eta, theta |-> o.fixed_theta,
                  C |-> o.fixed_C, c |-> o.fixed_c, mu |-> FALSE]
        draw == RandomDraw(random_seed)
    IN [vals |-> [k \in ParamsKeys |-> IF Stored(mp, k) THEN mp[k] ELSE draw[k]],
        variables |-> {k \in ParamsKeys : ~(Stored(mp, k) /\ fixed[k])},
        constrained |-> {k \in {"theta", "C", "c"} : ~Stored(mp, k)}]

\* constraint=lambda x: tf.clip_by_value(x, lower, np.infty)
ClipByValue(v, lower) == Max(v, lower)
Constraint(k, v) ==
    CASE k = "theta" -> ClipByValue(v, ThetaMin)
      [] k = "C" -> ClipByValue(v, CMin)
      [] k = "c" -> ClipByValue(v, cMin)
      [] OTHER -> v

\* ------------------------------------------------------------ the optimizer
\* The points a raw L-BFGS-B step may move the variables to.  c does not enter
\* the loss (the kernel adds the constant 0.01, not c), so no step moves it.
RawSteps ==
    {[eta |-> 100, mu |-> [e \in 1..NumExo |-> 100], theta |-> 100, C |-> 50],
     [eta |-> 0, mu |-> [e \in 1..NumExo |-> 200], theta |-> 0, C |-> 0]}

\* One update of the optimizer: the variables move to the raw point, then every
\* variable that carries a constraint is projected by it.
ApplyUpdate(vals, variables, constrained, raw) ==
    [k \in ParamsKeys |->
        IF k \notin variables \/ k \notin DOMAIN raw THEN vals[k]
        ELSE IF k \in constrained THEN Constraint(k, raw[k])
        ELSE raw[k]]

\* ------------------------------------------------------------ train
\* a comparison that also replaces the held best on a tie
KeepsOnTie(loss_value, best_validation_loss, best_model_params) ==
    loss_value <= best_validation_loss \/ IsNone(best_model_params)
\* if loss_value < best_validation_loss or best_model_params == None
Keeps(loss_value, best_validation_loss, best_model_params) ==
    loss_value < best_validation_loss \/ IsNone(best_model_params)

\* ------------------------------------------------------------ state
VARIABLES
    obj,                  \* the fields __init__ sets and nothing changes
    ctor_params,          \* model_params as __init__ left it
    validation_loss,      \* self.validation_loss
    model_params,         \* self.model_params
    pc,                   \* position in train / _fit
    train_calls,          \* train() calls made so far
    best_validation_loss, \* train(): best_validation_loss
    best_model_params,    \* train(): best_model_params
    restart,              \* train(): the restart index i
    tf,                   \* _fit(): the session's tensors (vals, variables, constrained)
    validation_loss_sum,  \* _fit(): validation_loss_sum
    series,               \* _fit(): the series index i
    iter,                 \* the optimizer's iterations in this minimize call
    fit_results,          \* what each _fit of this train() call returned
    fits_done,            \* _fit calls made so far
    fed_fit,              \* time indices fed to the optimizer so far
    fed_val,              \* time indices fed to the validation loss so far
    error,                \* the exception that ended the program, or "none"
    p_x,        \* predict: the two inputs x, each a sequence of columns
    p_y,        \* predict: the ground truth of each run (never read by predict)
    p_params,   \* predict: the parameter set shared by the two runs
    p_i,        \* predict: each run's loop counter i
    p_hist,     \* predict: each run's pred_history
    p_steps,    \* predict: each run's loop_body passes, as LoopBody records
    p_pc        \* predict: each run's position, "loop" or "returned"

pvars == <<p_x, p_y, p_params, p_i, p_hist, p_steps, p_pc>>
tvars == <<obj, ctor_params, validation_loss, model_params, pc, train_calls,
           best_validation_loss, best_model_params, restart, tf,
           validation_loss_sum, series, iter, fit_results, fits_done, fed_fit, fed_val, error>>
vars == <<pvars, tvars>>

Runs == {1, 2}

\* ------------------------------------------------------------ predict inputs
XPattern(p, T) == [i \in 1..T |-> [e \in 1..NumExo |-> Unit * ((i * p + e) % 3)]]
YPattern(p, T) == [i \in 1..T |-> Unit * ((i + p) % 4)]
PredictParams ==
    [eta : {0, 50}, mu : {[e \in 1..NumExo |-> m] : m \in {100, -50}},
     theta : {50, 100}, C : {50, 100}, c : {0, 100}]

\* no model is being trained
TrainOff ==
    /\ obj = << >> /\ ctor_params = << >> /\ validation_loss = NpInf
    /\ model_params = << >> /\ pc = "off" /\ train_calls = 0
    /\ best_validation_loss = NpInf /\ best_model_params = NoneParams
    /\ restart = 0 /\ tf = << >> /\ validation_loss_sum = 0 /\ series = 0
    /\ iter = 0 /\ fit_results = << >> /\ fits_done = 0
    /\ fed_fit = {} /\ fed_val = {} /\ error = "none"

PredictInit ==
    /\ TrainOff
    /\ \E T \in 1..MaxSteps, p \in 0..MaxPattern, j \in 1..MaxSteps, v \in {300} :
          /\ j <= T
          /\ p_x = <<XPattern(p, T),
                     [XPattern(p, T) EXCEPT ![j] = [e \in 1..NumExo |-> v]]>>
          /\ p_y = <<YPattern(p, T), [YPattern(p, T) EXCEPT ![j] = v]>>
    /\ p_params \in PredictParams
    /\ p_i = <<0, 0>>
    /\ p_hist = << << >>, << >> >>
    /\ p_steps = << << >>, << >> >>
    /\ p_pc = <<"loop", "loop">>

\* The two calls of predict are made one after the other.
Called(r) == IF r = 1 THEN TRUE ELSE p_pc[r - 1] = "returned"

\* loop_condition holds: one pass of loop_body of run r
PredictLoopBody(r) ==
    /\ Called(r)
    /\ p_pc[r] = "loop"
    /\ p_i[r] < Len(p_x[r])
    /\ LET step == LoopBody(p_params, p_x[r], p_hist[r], p_i[r])
       IN /\ p_hist' = [p_hist EXCEPT ![r] = Append(@, step.new_prediction)]
          /\ p_steps' = [p_steps EXCEPT ![r] = Append(@, step)]
    /\ p_i' = [p_i EXCEPT ![r] = @ + 1]
    /\ UNCHANGED <<p_x, p_y, p_params, p_pc, tvars>>

\* loop_condition fails: predict returns predictions
PredictReturn(r) ==
    /\ Called(r)
    /\ p_pc[r] = "loop"
    /\ ~(p_i[r] < Len(p_x[r]))
    /\ p_pc' = [p_pc EXCEPT ![r] = "returned"]
    /\ UNCHANGED <<p_x, p_y, p_params, p_i, p_hist, p_steps, tvars>>

PredictNext ==
    \/ \E r \in Runs : PredictLoopBody(r)
    \/ \E r \in Runs : PredictReturn(r)

PredictSpec == PredictInit /\ [][PredictNext]_vars

\* ------------------------------------------------------------ training
\* the constructor's fix_*_param_value and eta_param_mode arguments
FixChoices ==
    {[fix_c_param_value |-> {}, fix_theta_param_value |-> {}, fix_C_param_value |-> {},
      eta_param_mode |-> "random", fix_eta_param_value |-> {}],
     [fix_c_param_value |-> {}, fix_theta_param_value |-> {150}, fix_C_param_value |-> {},
      eta_param_mode |-> "unknown", fix_eta_param_value |-> {}],
     [fix_c_param_value |-> {50}, fix_theta_param_value |-> {}, fix_C_param_value |-> {100},
      eta_param_mode |-> "constant", fix_eta_param_value |-> {50}],
     [fix_c_param_value |-> {50}, fix_theta_param_value |-> {50}, fix_C_param_value |-> {100},
      eta_param_mode |-> "target_mean", fix_eta_param_value |-> {}],
     [fix_c_param_value |-> {}, fix_theta_param_value |-> {}, fix_C_param_value |-> {50},
      eta_param_mode |-> "exo_mean", fix_eta_param_value |-> {}]}

\* the lengths of the exogenous series tried against targets of length SeriesLen
XLens == {SeriesLen - 4, SeriesLen - 3, SeriesLen, SeriesLen + 1}

CtorArgs ==
    {[xs |-> [k \in 1..n |-> XPattern(k, xlen)],
      ys |-> [k \in 1..n |-> YPattern(k, SeriesLen)],
      fix_c_param_value |-> f.fix_c_param_value,
      fix_theta_param_value |-> f.fix_theta_param_value,
      fix_C_param_value |-> f.fix_C_param_value,
      eta_param_mode |-> f.eta_param_mode,
      fix_eta_param_value |-> f.fix_eta_param_value,
      max_iterations |-> MaxIter,
      num_initializations |-> N] :
        n \in 1..MaxSeries, xlen \in XLens, f \in FixChoices, N \in 0..MaxInit}

PredictOff ==
    /\ p_x = << >> /\ p_y = << >> /\ p_params = << >> /\ p_i = << >>
    /\ p_hist = << >> /\ p_steps = << >> /\ p_pc = << >>

\* the state after TensorHIP(...) returns
Init ==
    /\ PredictOff
    /\ \E a \in CtorArgs :
          /\ obj = Construct(a)
          /\ ctor_params = CtorModelParams(a)
          /\ model_params = CtorModelParams(a)
    /\ validation_loss = NpInf
    /\ pc = "idle"
    /\ train_calls = 0
    /\ best_validation_loss = NpInf
    /\ best_model_params = NoneParams
    /\ restart = 0
    /\ tf = << >>
    /\ validation_loss_sum = 0
    /\ series = 0
    /\ iter = 0
    /\ fit_results = << >>
    /\ fits_done = 0
    /\ fed_fit = {}
    /\ fed_val = {}
    /\ error = "none"

\* the restarts one model may run over its life
MaxFits == MaxInit + 1

\* train() is called
Train ==
    /\ pc = "idle"
    /\ train_calls < MaxTrainCalls
    /\ fits_done + obj.num_initializations <= MaxFits
    /\ train_calls' = train_calls + 1
    /\ best_validation_loss' = validation_loss
    /\ best_model_params' = NoneParams
    /\ restart' = 0
    /\ fit_results' = << >>
    /\ pc' = "train_loop"
    /\ UNCHANGED <<obj, ctor_params, validation_loss, model_params, tf,
                   validation_loss_sum, series, iter, fits_done, fed_fit, fed_val,
                   error, pvars>>

\* _fit(iteration_number=restart) up to the loop over the series
FitStart ==
    /\ pc = "train_loop"
    /\ restart < obj.num_initializations
    /\ tf' = InitTfModelVariables(obj, model_params, RANDOM_SEED + restart)
    /\ validation_loss_sum' = 0
    /\ series' = 0
    /\ iter' = 0
    /\ fits_done' = fits_done + 1
    /\ pc' = IF 0 < obj.num_of_series THEN "fit_series" ELSE "fit_return"
    /\ UNCHANGED <<obj, ctor_params, validation_loss, model_params, train_calls,
                   best_validation_loss, best_model_params, restart, fit_results,
                   fed_fit, fed_val, error, pvars>>

\* the slices of one series
TrainX(k) == PySlice(obj.x[k], 0, TrainEnd(obj))
TrainY(k) == PySlice(obj.ys[k], 0, TrainEnd(obj))
ValidationX(k) == PySlice(obj.x[k], ValidationStart(obj), ValidationEnd(obj))
ValidationY(k) == PySlice(obj.ys[k], ValidationStart(obj), ValidationEnd(obj))

\* optimizer.minimize is entered for the series: the loss is first evaluated on
\* the training slices, which fails when their shapes do not match
MinimizeBegin ==
    /\ pc = "fit_series"
    /\ fed_fit' = fed_fit
          \cup PySliceIdx(Len(obj.x[series + 1]), 0, TrainEnd(obj))
          \cup PySliceIdx(Len(obj.ys[series + 1]), 0, TrainEnd(obj))
    /\ iter' = 0
    /\ IF ShapesCompatible(Len(TrainY(series + 1)), Len(TrainX(series + 1)))
       THEN pc' = "minimize" /\ error' = error
       ELSE pc' = "failed" /\ error' = "InvalidArgumentError"
    /\ UNCHANGED <<obj, ctor_params, validation_loss, model_params, train_calls,
                   best_validation_loss, best_model_params, restart, tf,
                   validation_loss_sum, series, fit_results, fits_done, fed_val,
                   pvars>>

\* one iteration of the optimizer: a raw step, then the constraints
OptimizerStep ==
    /\ pc = "minimize"
    /\ iter < obj.max_iterations
    /\ \E raw \in RawSteps :
          tf' = [tf EXCEPT !.vals = ApplyUpdate(tf.vals, tf.variables, tf.constrained, raw)]
    /\ iter' = iter + 1
    /\ UNCHANGED <<obj, ctor_params, validation_loss, model_params, pc, train_calls,
                   best_validation_loss, best_model_params, restart,
                   validation_loss_sum, series, fit_results, fits_done, fed_fit,
                   fed_val, error, pvars>>

\* optimizer.minimize returns (converged, or max_iterations reached)
MinimizeReturn ==
    /\ pc = "minimize"
    /\ pc' = "validate"
    /\ UNCHANGED <<obj, ctor_params, validation_loss, model_params, train_calls,
                   best_validation_loss, best_model_params, restart, tf,
                   validation_loss_sum, series, iter, fit_results, fits_done,
                   fed_fit, fed_val, error, pvars>>

\* validation_loss = sess.run(loss, validation slices); it is added to the sum
Validate ==
    /\ pc = "validate"
    /\ fed_val' = fed_val
          \cup PySliceIdx(Len(obj.x[series + 1]), ValidationStart(obj), ValidationEnd(obj))
          \cup PySliceIdx(Len(obj.ys[series + 1]), ValidationStart(obj), ValidationEnd(obj))
    /\ IF ShapesCompatible(Len(ValidationY(series + 1)), Len(ValidationX(series + 1)))
       THEN /\ validation_loss_sum' = validation_loss_sum
                  + Loss(ValidationX(series + 1), ValidationY(series + 1), tf.vals)
                      \div obj.num_of_series
            /\ series' = series + 1
            /\ pc' = IF series + 1 < obj.num_of_series THEN "fit_series" ELSE "fit_return"
            /\ error' = error
       ELSE /\ pc' = "failed"
            /\ error' = "InvalidArgumentError"
            /\ UNCHANGED <<validation_loss_sum, series>>
    /\ UNCHANGED <<obj, ctor_params, validation_loss, model_params, train_calls,
                   best_validation_loss, best_model_params, restart, tf, iter,
                   fit_results, fits_done, fed_fit, pvars>>

\* _fit returns (validation_loss_sum, fitted_model_params) and train() compares
FitReturn ==
    /\ pc = "fit_return"
    /\ LET loss_value == validation_loss_sum
           fitted_model_params == tf.vals
       IN /\ fit_results' = Append(fit_results,
                                [loss |-> loss_value, params |-> fitted_model_params])
          /\ IF Keeps(loss_value, best_validation_loss, best_model_params)
             THEN /\ best_validation_loss' = loss_value
                  /\ best_model_params' = fitted_model_params
             ELSE UNCHANGED <<best_validation_loss, best_model_params>>
    /\ restart' = restart + 1
    /\ pc' = "train_loop"
    /\ UNCHANGED <<obj, ctor_params, validation_loss, model_params, train_calls, tf,
                   validation_loss_sum, series, iter, fits_done, fed_fit, fed_val,
                   error, pvars>>

\* the loop over the restarts is over: train() stores the best and returns
TrainReturn ==
    /\ pc = "train_loop"
    /\ ~(restart < obj.num_initializations)
    /\ validation_loss' = best_validation_loss
    /\ model_params' = best_model_params
    /\ pc' = "idle"
    /\ UNCHANGED <<obj, ctor_params, train_calls, best_validation_loss,
                   best_model_params, restart, tf, validation_loss_sum, series,
                   iter, fit_results, fits_done, fed_fit, fed_val, error, pvars>>

Next ==
    \/ Train
    \/ FitStart
    \/ MinimizeBegin
    \/ OptimizerStep
    \/ MinimizeReturn
    \/ Validate
    \/ FitReturn
    \/ TrainReturn

Spec == Init /\ [][Next]_vars

\* ------------------------------------------------------------ claims on training
\* the losses the restarts of the last train() call returned
LossesOf(results) == {results[k].loss : k \in 1..Len(results)}
MinLoss(results) == CHOOSE m \in LossesOf(results) : \A l \in LossesOf(results) : m <= l
\* the earliest restart that returned the minimum
FirstMin(results) ==
    CHOOSE k \in 1..Len(results) :
        /\ results[k].loss = MinLoss(results)
        /\ \A j \in 1..(k - 1) : results[j].loss # MinLoss(results)

\* the first train() call on a new model has returned, N >= 1
FirstTrainReturned ==
    pc = "idle" /\ train_calls = 1 /\ obj.num_initializations >= 1

\* C1: best-of selection.  After the first train() on a new model with N >= 1
\* restarts, validation_loss is the minimum of the N losses _fit returned and
\* model_params is what the earliest restart with that loss returned.
C1_BestOfSelection ==
    FirstTrainReturned =>
        /\ Len(fit_results) = obj.num_initializations
        /\ validation_loss = MinLoss(fit_results)
        /\ model_params = fit_results[FirstMin(fit_results)].params

\* C1 witness: two restarts tie at the minimum with different parameters, and
\* the parameters of the first are the ones held.
C1_Witness ==
    /\ FirstTrainReturned
    /\ Len(fit_results) = 2
    /\ fit_results[1].loss = fit_results[2].loss
    /\ fit_results[1].params # fit_results[2].params
    /\ model_params = fit_results[1].params

\* C6: constraint enforcement.  In every restart, after every update the
\* optimizer makes, a free theta is at least 0.5 and a free C at least 0.01.
C6_ConstraintsEnforced ==
    (pc = "minimize" /\ iter >= 1) =>
        /\ "theta" \in tf.variables => tf.vals.theta >= 50
        /\ "C" \in tf.variables => tf.vals.C >= 1

\* C7: no test-split leakage.  Over every restart and series the optimizer is
\* fed only time indices [0, num_cv_train), the validation loss only
\* [num_cv_train, num_train), the two are disjoint, and no index >= num_train
\* is fed to either.
C7_NoTestLeak ==
    /\ fed_fit \subseteq 0..(obj.num_cv_train - 1)
    /\ fed_val \subseteq obj.num_cv_train..(obj.num_train - 1)
    /\ fed_fit \cap fed_val = {}
    /\ \A k \in fed_fit \cup fed_val : k < obj.num_train

\* C7 witness: train() has returned on a model whose series have a test split,
\* with both splits fed.
C7_Witness ==
    /\ pc = "idle"
    /\ train_calls >= 1
    /\ fed_fit # {}
    /\ fed_val # {}
    /\ obj.num_train < obj.series_length
    /\ obj.num_train < Len(obj.x[1])

\* C8: fixed parameters stay constant.  Every parameter fixed at construction
\* is no variable of any restart, has its construction value in every restart,
\* and after any number of train() calls model_params holds that value.
C8_FixedStayConstant ==
    /\ pc \in {"fit_series", "minimize", "validate", "fit_return"} =>
          \A k \in DOMAIN ctor_params :
              k \notin tf.variables /\ tf.vals[k] = ctor_params[k]
    /\ pc = "idle" =>
          \A k \in DOMAIN ctor_params :
              k \in DOMAIN model_params /\ model_params[k] = ctor_params[k]

\* some series has an exogenous length other than its target length
Misaligned == \E k \in 1..obj.num_of_series : Len(obj.x[k]) # Len(obj.ys[k])

\* C9: fail fast on misaligned input.  With exogenous and target series of
\* different lengths no restart gets to optimize: the shape error comes first.
C9_FailFast == Misaligned => pc \notin {"minimize", "validate", "fit_return"}

\* the mean over the series of the validation loss under the parameters p
MeanValidationLoss(p) ==
    TfReduceSum([k \in 1..obj.num_of_series |->
        Loss(ValidationX(k), ValidationY(k), p) \div obj.num_of_series])

\* C10: the loss _fit returns is the mean validation loss of the parameters it
\* returns.
C10_LossOfReturnedParams ==
    pc = "fit_return" => validation_loss_sum = MeanValidationLoss(tf.vals)

\* some restart of the running train() call returned the parameters p with a
\* loss strictly below the loss l
StrictlyBetterRestart(p, l) ==
    \E k \in 1..Len(fit_results) :
        fit_results[k].params = p /\ fit_results[k].loss < l

\* C11: the held best is never made worse.  Over any sequence of train() calls
\* on one model the held validation_loss never increases, and the held
\* model_params change only to the parameters of a restart whose validation
\* loss is strictly lower than the loss held before; otherwise both stay.
C11_HeldNeverWorse ==
    [][/\ validation_loss' <= validation_loss
       /\ model_params' # model_params =>
              StrictlyBetterRestart(model_params', validation_loss)]_vars

\* ------------------------------------------------------------ claims on predict
\* the columns 0..m-1 of the two inputs agree
AgreeUpTo(m) == \A k \in 1..m : p_x[1][k] = p_x[2][k]

\* C2: causality.  Two runs of predict with the same parameters on inputs that
\* agree on columns 0..i (and whose targets may differ anywhere) give the same
\* predictions[0..i], whatever the later columns hold.
C2_Causality ==
    \A m \in 1..Min(Len(p_hist[1]), Len(p_hist[2])) :
        AgreeUpTo(m) => p_hist[1][m] = p_hist[2][m]

\* C2 witness: both runs returned, the inputs and the targets differ at a column
\* j > 0, the predictions agree before j and differ at j.
C2_Witness ==
    /\ p_pc = <<"returned", "returned">>
    /\ \E j \in 2..Len(p_x[1]) :
          /\ AgreeUpTo(j - 1)
          /\ p_x[1][j] # p_x[2][j]
          /\ p_y[1][j] # p_y[2][j]
          /\ p_hist[1][j - 1] = p_hist[2][j - 1]
          /\ p_hist[1][j] # p_hist[2][j]

\* every pass of loop_body made so far, of either run
AllSteps == {<<r, n>> : r \in Runs, n \in 1..MaxSteps + 1}
StepsDone == {rn \in AllSteps : rn[2] <= Len(p_steps[rn[1]])}
StepOf(rn) == p_steps[rn[1]][rn[2]]

\* the endogenous term of a pass whose history value at distance k (the
\* prediction at index i - k) is weighted by (k + shift + 0.01)^(-1 - theta)
EndoByLag(r, s, shift) ==
    (p_params.C * TfReduceSum([k \in 1..(s.i - s.start) |->
        (p_hist[r][s.i - k + 1]
           * TfPow((k + shift) * Unit + 1, 0 - Unit - p_params.theta)) \div WScale]))
      \div Unit

\* C3 as stated: with n = i - windowStart history values, the bases paired with
\* the history are n, n-1, ..., 1 from oldest to most recent (lag k is weighted
\* by (k + 0.01)^(-1 - theta), the smallest base being 1).
C3_KernelLagFromOne ==
    \A rn \in StepsDone :
        LET s == StepOf(rn)
            n == s.i - s.start
        IN /\ Len(s.base) = n
           /\ \A k \in 1..n : s.base[n + 1 - k] = k
           /\ s.endogenous = EndoByLag(rn[1], s, 0)

\* C3 amended: the bases paired with the history are n+1, n, ..., 2 from oldest
\* to most recent: the history value at distance k is weighted by
\* (k + 1 + 0.01)^(-1 - theta), the smallest base being 2.
C3_KernelLagFromTwo ==
    \A rn \in StepsDone :
        LET s == StepOf(rn)
            n == s.i - s.start
        IN /\ Len(s.base) = n
           /\ \A k \in 1..n : s.base[n + 1 - k] = k + 1
           /\ \A k \in 1..n : s.endo_history[n + 1 - k] = p_hist[rn[1]][s.i - k + 1]
           /\ s.endogenous = EndoByLag(rn[1], s, 1)

\* C3 witness: a pass past the window (i = 8, seven history values) whose
\* endogenous term is not zero.
C3_Witness ==
    \E rn \in StepsDone :
        /\ StepOf(rn).i = 8
        /\ Len(StepOf(rn).base) = 7
        /\ StepOf(rn).endogenous # 0

\* C4: zero history.  The pass at index 0 has an empty history and an empty
\* kernel base, its endogenous term is 0 and predictions[0] is
\* eta + sum(mu * x[:, 0]), whatever C, theta and c are.
C4_ZeroHistory ==
    \A r \in Runs :
        Len(p_steps[r]) >= 1 =>
            /\ p_steps[r][1].i = 0
            /\ p_steps[r][1].endo_history = << >>
            /\ p_steps[r][1].base = << >>
            /\ p_steps[r][1].endogenous = 0
            /\ p_hist[r][1] =
                 p_params.eta
                   + TfReduceSum([e \in 1..NumExo |->
                                    (p_params.mu[e] * p_x[r][1][e]) \div Unit])

\* C4 witness: index 0 was predicted with C and theta in use: the next pass has
\* an endogenous term that is not zero.
C4_Witness ==
    /\ Len(p_steps[1]) >= 2
    /\ p_steps[1][1].endogenous = 0
    /\ p_steps[1][2].endogenous # 0
    /\ p_params.c # 0

\* C5: bounded memory window.  At every pass i the history is exactly the
\* predictions at indices max(0, i - 7) .. i - 1, min(i, 7) values and never
\* more than 7, and the kernel base and the exponent vector have that length.
C5_BoundedWindow ==
    \A rn \in StepsDone :
        LET s == StepOf(rn)
        IN /\ s.start = Max(0, s.i - 7)
           /\ s.endo_history = SubSeq(p_hist[rn[1]], s.start + 1, s.i)
           /\ Len(s.endo_history) = Min(s.i, 7)
           /\ Len(s.endo_history) <= 7
           /\ Len(s.base) = Len(s.endo_history)
           /\ Len(s.exps) = Len(s.endo_history)

\* C5 witness: a pass at index 8, whose window starts at 1 and leaves out
\* predictions[0].
C5_Witness ==
    \E rn \in StepsDone :
        /\ StepOf(rn).i = 8
        /\ StepOf(rn).start = 1
        /\ Len(StepOf(rn).endo_history) = 7

====
